---- MODULE Spec2Model ----
(***************************************************************************)
(* A model of go-mage-shared: the subprocess executor of package execx     *)
(* (Exec.Run and streamToSlog) together with the subprocess, its two       *)
(* output pipes and the cancellation context it runs under, and the        *)
(* option builders of packages golang, helmx and kox that call the         *)
(* executor.                                                               *)
(*                                                                         *)
(* Bytes of a stream are identified by their offset in the stream: wr[s]   *)
(* counts the bytes the subprocess has written to pipe s, rd[s] the bytes  *)
(* the consumer has read from it, so the pipe holds the bytes              *)
(* rd[s]..wr[s]-1.  A stream's content is a sequence of line lengths       *)
(* (each line ends with its newline byte).                                 *)
(***************************************************************************)
EXTENDS Integers, Sequences, FiniteSets, TLC

VARIABLES
    streamToLog,  \* Run's streamToLog parameter
    script,       \* per stream, the line lengths the subprocess writes
    exitCode,     \* the status the subprocess exits with when left alone
    ctxErr,       \* ctx.Err(): "nil" or "context canceled"
    pc,           \* position of the foreground task inside Exec.Run
    result,       \* the error Run returned (NoResult until it returns)
    proc,         \* the subprocess: "none", "running", "exited", "killed"
    waitErr,      \* the error cmd.Wait returned
    wr,           \* per stream, bytes written by the subprocess
    rd,           \* per stream, bytes read by the consumer
    closed,       \* per stream, the parent's read end has been closed
    cons,         \* per stream, position of the consumer goroutine
    start,        \* per stream, offset of the scanner's first unconsumed byte
    scanErr,      \* per stream, the scanner's sticky error
    token,        \* per stream, the token the last Scan returned
    logs,         \* the slog records emitted, in order
    term,         \* per stream of the caller (os.Stdout, os.Stderr), bytes copied
    scanned,      \* history: per stream, the tokens scanner.Scan has returned
    cancelAt,     \* history: the state of the subprocess when ctx was cancelled
    call,         \* option builders: the builder invoked and its options
    ret,          \* option builders: the error the builder returned
    runs,         \* option builders: the executor.Run calls the builder made
    execErrs      \* option builders: what executor.Run returned to each call

execVars == <<streamToLog, script, exitCode, ctxErr, pc, result, proc, waitErr,
              wr, rd, closed, cons, start, scanErr, token, logs, term,
              scanned, cancelAt>>
builderVars == <<call, ret, runs, execErrs>>
vars == <<execVars, builderVars>>

-----------------------------------------------------------------------------
(* Bounds and constants *)

\* the longest stream, in lines
MaxLines == 2
\* a line that fits the pipe and the scanner's buffer
Short == 10
\* capacity of an OS pipe, in bytes
PipeCap == 512 * 1024
\* streamToSlog: const maxCapacity = 1024 * 1024
maxCapacity == 1024 * 1024
\* a line longer than one pipe buffer, shorter than maxCapacity
Big == PipeCap + Short
\* a line longer than maxCapacity whose tail fits one pipe buffer
TooLong == maxCapacity + Short
\* a line longer than maxCapacity whose tail does not fit one pipe buffer
Huge == maxCapacity + PipeCap + Short

Streams == {"stdout", "stderr"}
Other(s) == IF s = "stdout" THEN "stderr" ELSE "stdout"

\* the outputs a subprocess may write to one stream: up to MaxLines lines,
\* one of them at most longer than Short
LineLens == {Short, Big, TooLong, Huge}
Scripts ==
    {sq \in UNION {[1..n -> LineLens] : n \in 0..MaxLines} :
        Cardinality({k \in DOMAIN sq : sq[k] # Short}) <= 1}

Min(a, b) == IF a < b THEN a ELSE b

RECURSIVE Sum(_, _)
Sum(sq, k) == IF k = 0 THEN 0 ELSE sq[k] + Sum(sq, k - 1)

\* offset just past the newline of line k of stream s
LineEnd(s, k) == Sum(script[s], k)
Total(s) == LineEnd(s, Len(script[s]))

\* bytes in pipe s, and room left in it
Avail(s) == wr[s] - rd[s]
Space(s) == PipeCap - Avail(s)

\* the write end of pipe s is closed once the subprocess is gone
WriteEndClosed == proc \in {"exited", "killed"}

-----------------------------------------------------------------------------
(* Errors and log records                                                   *)
(*                                                                         *)
(* Every record constructor of this module lists its fields in the order   *)
(* in which the field names first occur in the module text. TLC keeps a    *)
(* record's fields in that order and re-sorts a constructor written in any *)
(* other order in place, which is not safe with more than one worker.      *)

\* a nil error of an option builder, and the state before any builder ran
Nil == [kind |-> "nil", msg |-> <<>>, wraps |-> "nil"]
NoCall == [fn |-> "none", opts |-> <<>>]

\* fmt.Errorf(...: %w): the phase, whether the message names the program
\* (%q of command), and the error it wraps
Failure(kind, named, cause) == [kind |-> kind, wraps |-> cause,
                                command |-> named]
Success == [kind |-> "success", wraps |-> "nil", command |-> FALSE]
\* Run has not returned
NoResult == [kind |-> "none", wraps |-> "nil", command |-> FALSE]

\* Level with both consumers started at slog.LevelInfo
LevelInfoOnly(s) == "INFO"

\* the severity streamToSlog is started with for stream s
Level(s) == IF s = "stdout" THEN "INFO" ELSE "ERROR"

\* CopyDest with both copies writing to os.Stdout
CopyToStdout(s) == "stdout"

\* the caller's stream that the passthrough copy of stream s writes to
CopyDest(s) == s

\* slog.Log(ctx, level, scanner.Text())
LineRecord(s, tk) == [msg |-> "line", level |-> Level(s), stream |-> s,
                      from |-> tk[1], to |-> tk[2]]
\* slog.WarnContext(ctx, "stream canceled", "reason", ctx.Err())
CancelRecord(s) == [msg |-> "stream canceled", level |-> "WARN", stream |-> s,
                    from |-> 0, to |-> 0]
\* slog.ErrorContext(ctx, "failed to read stream", "err", err)
ReadErrRecord(s) == [msg |-> "failed to read stream", level |-> "ERROR",
                     stream |-> s, from |-> 0, to |-> 0]

\* bytes [from, to) of stream s appended to a sink, merged with the sink's
\* last fragment when they continue it
Append1(sink, s, from, to) ==
    IF Len(sink) > 0 /\ sink[Len(sink)][1] = s /\ sink[Len(sink)][3] = from
    THEN [sink EXCEPT ![Len(sink)] = <<s, sink[Len(sink)][2], to>>]
    ELSE Append(sink, <<s, from, to>>)

-----------------------------------------------------------------------------
(* Exec.Run: the foreground task *)

Init ==
    /\ streamToLog \in BOOLEAN
    /\ script \in [Streams -> Scripts]
    /\ exitCode \in {0, 1}
    /\ ctxErr = "nil"
    /\ pc = "create"
    /\ result = NoResult
    /\ proc = "none"
    /\ waitErr = "nil"
    /\ wr = [s \in Streams |-> 0]
    /\ rd = [s \in Streams |-> 0]
    /\ closed = [s \in Streams |-> FALSE]
    /\ cons = [s \in Streams |-> "unlaunched"]
    /\ start = [s \in Streams |-> 0]
    /\ scanErr = [s \in Streams |-> "nil"]
    /\ token = [s \in Streams |-> <<0, 0>>]
    /\ logs = <<>>
    /\ term = [s \in Streams |-> <<>>]
    /\ scanned = [s \in Streams |-> <<>>]
    /\ cancelAt = "never"
    /\ call = NoCall
    /\ ret = Nil
    /\ runs = <<>>
    /\ execErrs = <<>>

\* Run returns err
Return(err) ==
    /\ pc' = "done"
    /\ result' = err

\* cmd := e.creator.CommandContext(ctx, command, args...); cmd.SetStdin(os.Stdin)
CommandContext ==
    /\ pc = "create"
    /\ pc' = "stdoutPipe"
    /\ UNCHANGED <<streamToLog, script, exitCode, ctxErr, result, proc, waitErr,
                   wr, rd, closed, cons, start, scanErr, token, logs, term, scanned, cancelAt>>
    /\ UNCHANGED builderVars

\* stdout, err := cmd.StdoutPipe()
StdoutPipe ==
    /\ pc = "stdoutPipe"
    /\ \E ok \in BOOLEAN :
          IF ok
          THEN pc' = "stderrPipe" /\ UNCHANGED result
          ELSE Return(Failure("stdout_pipe_failure", FALSE, "pipe error"))
    /\ UNCHANGED <<streamToLog, script, exitCode, ctxErr, proc, waitErr,
                   wr, rd, closed, cons, start, scanErr, token, logs, term, scanned, cancelAt>>
    /\ UNCHANGED builderVars

\* stderr, err := cmd.StderrPipe()
StderrPipe ==
    /\ pc = "stderrPipe"
    /\ \E ok \in BOOLEAN :
          IF ok
          THEN pc' = "start" /\ UNCHANGED result
          ELSE Return(Failure("stderr_pipe_failure", FALSE, "pipe error"))
    /\ UNCHANGED <<streamToLog, script, exitCode, ctxErr, proc, waitErr,
                   wr, rd, closed, cons, start, scanErr, token, logs, term, scanned, cancelAt>>
    /\ UNCHANGED builderVars

\* StartFailed that falls through to the go statements instead of returning
StartFailedFallsThrough(err) ==
    /\ pc' = "goStdout"
    /\ closed' = [s \in Streams |-> TRUE]
    /\ UNCHANGED <<proc, result>>

\* the position Run continues at after cmd.Start() failed with err
StartFailed(err) ==
    /\ Return(Failure("start_failure", TRUE, err))
    /\ closed' = [s \in Streams |-> TRUE]
    /\ UNCHANGED proc

\* if err := cmd.Start(); err != nil { return ... }.  exec.Cmd.Start fails
\* with ctx.Err() when the context is already done, or with the OS error.
Start ==
    /\ pc = "start"
    /\ IF ctxErr # "nil"
       THEN StartFailed(ctxErr)
       ELSE \E ok \in BOOLEAN :
               IF ok
               THEN /\ proc' = "running"
                    /\ pc' = "goStdout"
                    /\ UNCHANGED <<result, closed>>
               ELSE StartFailed("exec error")
    /\ UNCHANGED <<streamToLog, script, exitCode, ctxErr, waitErr,
                   wr, rd, cons, start, scanErr, token, logs, term, scanned, cancelAt>>
    /\ UNCHANGED builderVars

\* the consumer a go statement of Run starts, by streaming mode
Consumer(toLog) == IF toLog THEN "scan" ELSE "copy"

\* go streamToSlog(ctx, stdout, slog.LevelInfo) / go func() { io.Copy(os.Stdout, stdout) }()
GoStdout ==
    /\ pc = "goStdout"
    /\ cons' = [cons EXCEPT !["stdout"] = Consumer(streamToLog)]
    /\ pc' = "goStderr"
    /\ UNCHANGED <<streamToLog, script, exitCode, ctxErr, result, proc, waitErr,
                   wr, rd, closed, start, scanErr, token, logs, term, scanned, cancelAt>>
    /\ UNCHANGED builderVars

\* GoStderr with the go statement moved behind cmd.Wait(): Run goes on to Wait
\* with the stderr consumer not started
GoStderrAfterWait ==
    /\ pc = "goStderr"
    /\ pc' = "wait"
    /\ UNCHANGED <<streamToLog, script, exitCode, ctxErr, result, proc, waitErr,
                   wr, rd, closed, cons, start, scanErr, token, logs, term,
                   scanned, cancelAt>>
    /\ UNCHANGED builderVars

\* go streamToSlog(ctx, stderr, slog.LevelError) / go func() { io.Copy(os.Stderr, stderr) }()
GoStderr ==
    /\ pc = "goStderr"
    /\ cons' = [cons EXCEPT !["stderr"] = Consumer(streamToLog)]
    /\ pc' = "wait"
    /\ UNCHANGED <<streamToLog, script, exitCode, ctxErr, result, proc, waitErr,
                   wr, rd, closed, start, scanErr, token, logs, term, scanned, cancelAt>>
    /\ UNCHANGED builderVars

\* the error cmd.Wait returns for a subprocess in state p with status code
WaitResult(p, code) ==
    IF p = "killed" THEN "signal: killed"
    ELSE IF code # 0 THEN "exit status 1"
    ELSE "nil"

\* Wait with ctx.Err() tested before Wait's error: under a cancelled context
\* Run goes on to the cancelled failure even when Wait returned nil
WaitCtxFirst ==
    /\ pc = "wait"
    /\ proc \in {"exited", "killed"}
    /\ waitErr' = WaitResult(proc, exitCode)
    /\ closed' = [s \in Streams |-> TRUE]
    /\ IF waitErr' # "nil" \/ ctxErr # "nil"
       THEN pc' = "classify" /\ UNCHANGED result
       ELSE Return(Success)
    /\ UNCHANGED <<streamToLog, script, exitCode, ctxErr, proc,
                   wr, rd, cons, start, scanErr, token, logs, term, scanned, cancelAt>>
    /\ UNCHANGED builderVars

\* cmd.Wait(): blocks until the subprocess is gone, then closes the parent's
\* ends of the pipes and reports the exit status
Wait ==
    /\ pc = "wait"
    /\ proc \in {"exited", "killed"}
    /\ waitErr' = WaitResult(proc, exitCode)
    /\ closed' = [s \in Streams |-> TRUE]
    /\ IF waitErr' # "nil"
       THEN pc' = "classify" /\ UNCHANGED result
       ELSE Return(Success)
    /\ UNCHANGED <<streamToLog, script, exitCode, ctxErr, proc,
                   wr, rd, cons, start, scanErr, token, logs, term, scanned, cancelAt>>
    /\ UNCHANGED builderVars

\* ClassifyWaitErr returning Wait's error as it is, not wrapped in a failure
\* of Run
ClassifyBare(err, cerr) == Failure("wait_error", FALSE, err)

\* ClassifyWaitErr without the ctx.Err() test: every Wait error is a run failure
ClassifyIgnoringCtx(err, cerr) == Failure("run_failure", TRUE, err)

\* ClassifyWaitErr with the two messages exchanged
ClassifySwapped(err, cerr) ==
    IF cerr # "nil"
    THEN Failure("run_failure", TRUE, err)
    ELSE Failure("canceled", TRUE, cerr)

\* the error Run builds from Wait's error err when ctx.Err() is cerr
ClassifyWaitErr(err, cerr) ==
    IF cerr # "nil"
    THEN Failure("canceled", TRUE, cerr)
    ELSE Failure("run_failure", TRUE, err)

\* if ctx.Err() != nil { return canceled } return failed
Classify ==
    /\ pc = "classify"
    /\ Return(ClassifyWaitErr(waitErr, ctxErr))
    /\ UNCHANGED <<streamToLog, script, exitCode, ctxErr, proc, waitErr,
                   wr, rd, closed, cons, start, scanErr, token, logs, term, scanned, cancelAt>>
    /\ UNCHANGED builderVars

-----------------------------------------------------------------------------
(* The cancellation context and the subprocess *)

\* the caller cancels ctx, or its deadline passes
Cancel ==
    /\ ctxErr = "nil"
    /\ ctxErr' = "context canceled"
    /\ cancelAt' = proc
    /\ UNCHANGED <<streamToLog, script, exitCode, pc, result, proc, waitErr,
                   wr, rd, closed, cons, start, scanErr, token, logs, term, scanned>>
    /\ UNCHANGED builderVars

\* Kill for a command made with exec.Command: nothing watches ctx, the
\* subprocess is never killed
KillNever ==
    /\ FALSE
    /\ UNCHANGED vars

\* exec.CommandContext: once ctx is done, the command's watcher kills the
\* subprocess if it is still running
Kill ==
    /\ ctxErr # "nil"
    /\ proc = "running"
    /\ proc' = "killed"
    /\ UNCHANGED <<streamToLog, script, exitCode, ctxErr, pc, result, waitErr,
                   wr, rd, closed, cons, start, scanErr, token, logs, term, scanned, cancelAt>>
    /\ UNCHANGED builderVars

\* the subprocess writes to pipe s as much as the pipe takes; it blocks while
\* the pipe is full
ProcWrite(s) ==
    /\ proc = "running"
    /\ wr[s] < Total(s)
    /\ Space(s) > 0
    /\ wr' = [wr EXCEPT ![s] = wr[s] + Min(Space(s), Total(s) - wr[s])]
    /\ UNCHANGED <<streamToLog, script, exitCode, ctxErr, pc, result, proc,
                   waitErr, rd, closed, cons, start, scanErr, token, logs, term, scanned, cancelAt>>
    /\ UNCHANGED builderVars

\* the subprocess exits once it has written all of its output
ProcExit ==
    /\ proc = "running"
    /\ \A s \in Streams : wr[s] = Total(s)
    /\ proc' = "exited"
    /\ UNCHANGED <<streamToLog, script, exitCode, ctxErr, pc, result, waitErr,
                   wr, rd, closed, cons, start, scanErr, token, logs, term, scanned, cancelAt>>
    /\ UNCHANGED builderVars

-----------------------------------------------------------------------------
(* streamToSlog: the consumer of log-streaming mode *)

\* bytes the scanner holds that no token has consumed
Buffered(s) == rd[s] - start[s]

\* offset just past the first newline at or after start[s]; 0 if the stream
\* has none
NextNL(s) ==
    LET ends == {LineEnd(s, k) : k \in 1..Len(script[s])}
        after == {e \in ends : e > start[s]}
    IN  IF after = {} THEN 0 ELSE CHOOSE e \in after : \A f \in after : e <= f

\* bufio.ScanLines finds a whole line in the buffer
HasLine(s) == NextNL(s) # 0 /\ NextNL(s) <= rd[s]

\* AfterScan without the scanner.Err() check: the loop just ends
AfterScanSilent(err) == "eof"

\* the state streamToSlog ends in when Scan returned false with error err
\* (scanner.Err() is nil after io.EOF), and whether it logs the error
AfterScan(err) == IF err = "eof" THEN "eof" ELSE "readerr"

\* one round of the loop inside scanner.Scan()
Scan(s) ==
    /\ cons[s] = "scan"
    /\ IF HasLine(s)
       THEN \* a complete line: Scan returns true, Text() is the line
            /\ token' = [token EXCEPT ![s] = <<start[s], NextNL(s) - 1>>]
            /\ start' = [start EXCEPT ![s] = NextNL(s)]
            /\ cons' = [cons EXCEPT ![s] = "select"]
            /\ UNCHANGED <<rd, scanErr, logs>>
       ELSE IF scanErr[s] # "nil" /\ Buffered(s) > 0
       THEN \* the read failed or ended: the rest of the buffer is the last token
            /\ token' = [token EXCEPT ![s] = <<start[s], rd[s]>>]
            /\ start' = [start EXCEPT ![s] = rd[s]]
            /\ cons' = [cons EXCEPT ![s] = "select"]
            /\ UNCHANGED <<rd, scanErr, logs>>
       ELSE IF scanErr[s] # "nil"
       THEN \* Scan returns false; scanner.Err() is logged unless it was io.EOF
            /\ cons' = [cons EXCEPT ![s] = AfterScan(scanErr[s])]
            /\ logs' = IF AfterScan(scanErr[s]) = "readerr"
                       THEN Append(logs, ReadErrRecord(s)) ELSE logs
            /\ UNCHANGED <<rd, start, scanErr, token>>
       ELSE IF Buffered(s) >= maxCapacity
       THEN \* the buffer is full at its cap: bufio.ErrTooLong, Scan returns false
            /\ scanErr' = [scanErr EXCEPT ![s] = "token too long"]
            /\ cons' = [cons EXCEPT ![s] = AfterScan("token too long")]
            /\ logs' = IF AfterScan("token too long") = "readerr"
                       THEN Append(logs, ReadErrRecord(s)) ELSE logs
            /\ UNCHANGED <<rd, start, token>>
       ELSE \* r.Read into the free part of the buffer
            /\ IF closed[s]
               THEN scanErr' = [scanErr EXCEPT ![s] = "file already closed"]
                    /\ UNCHANGED rd
               ELSE IF Avail(s) > 0
               THEN rd' = [rd EXCEPT ![s] =
                              rd[s] + Min(Avail(s), maxCapacity - Buffered(s))]
                    /\ UNCHANGED scanErr
               ELSE /\ WriteEndClosed
                    /\ scanErr' = [scanErr EXCEPT ![s] = "eof"]
                    /\ UNCHANGED rd
            /\ UNCHANGED <<cons, start, token, logs>>
    /\ scanned' = IF cons'[s] = "select"
                  THEN [scanned EXCEPT ![s] = Append(@, token'[s])]
                  ELSE scanned
    /\ UNCHANGED <<streamToLog, script, exitCode, ctxErr, pc, result, proc,
                   waitErr, wr, closed, term, cancelAt>>
    /\ UNCHANGED builderVars

\* Select without the case <-ctx.Done(): every line read is logged
SelectWithoutCheck(s) ==
    /\ cons[s] = "select"
    /\ logs' = Append(logs, LineRecord(s, token[s]))
    /\ cons' = [cons EXCEPT ![s] = "scan"]
    /\ UNCHANGED <<streamToLog, script, exitCode, ctxErr, pc, result, proc,
                   waitErr, wr, rd, closed, start, scanErr, token, term,
                   scanned, cancelAt>>
    /\ UNCHANGED builderVars

\* the body of the for loop: select { case <-ctx.Done(): ... default: ... }
Select(s) ==
    /\ cons[s] = "select"
    /\ IF ctxErr # "nil"
       THEN /\ logs' = Append(logs, CancelRecord(s))
            /\ cons' = [cons EXCEPT ![s] = "canceled"]
       ELSE /\ logs' = Append(logs, LineRecord(s, token[s]))
            /\ cons' = [cons EXCEPT ![s] = "scan"]
    /\ UNCHANGED <<streamToLog, script, exitCode, ctxErr, pc, result, proc,
                   waitErr, wr, rd, closed, start, scanErr, token, term,
                   scanned, cancelAt>>
    /\ UNCHANGED builderVars

-----------------------------------------------------------------------------
(* io.Copy: the consumer of passthrough mode *)

\* one round of io.Copy(os.Stdout, stdout) / io.Copy(os.Stderr, stderr):
\* read what the pipe holds and write it to the caller's stream
Copy(s) ==
    /\ cons[s] = "copy"
    /\ IF closed[s]
       THEN \* the read fails; the error is dropped (_, _ =)
            /\ cons' = [cons EXCEPT ![s] = "readerr"]
            /\ UNCHANGED <<rd, term>>
       ELSE IF Avail(s) > 0
       THEN /\ rd' = [rd EXCEPT ![s] = wr[s]]
            /\ term' = [term EXCEPT ![CopyDest(s)] =
                           Append1(term[CopyDest(s)], s, rd[s], wr[s])]
            /\ UNCHANGED cons
       ELSE /\ WriteEndClosed
            /\ cons' = [cons EXCEPT ![s] = "eof"]
            /\ UNCHANGED <<rd, term>>
    /\ UNCHANGED <<streamToLog, script, exitCode, ctxErr, pc, result, proc,
                   waitErr, wr, closed, start, scanErr, token, logs,
                   scanned, cancelAt>>
    /\ UNCHANGED builderVars

-----------------------------------------------------------------------------
(* The executor with its subprocess and context *)

Next ==
    \/ CommandContext
    \/ StdoutPipe
    \/ StderrPipe
    \/ Start
    \/ GoStdout
    \/ GoStderr
    \/ Wait
    \/ Classify
    \/ Cancel
    \/ Kill
    \/ ProcExit
    \/ \E s \in Streams : ProcWrite(s)
    \/ \E s \in Streams : Scan(s)
    \/ \E s \in Streams : Select(s)
    \/ \E s \in Streams : Copy(s)

Spec == Init /\ [][Next]_vars

-----------------------------------------------------------------------------
(* The option builders of golang, helmx and kox.  Each one validates its     *)
(* options, assembles the argument list and calls executor.Run; the executor *)
(* is the execx.Executor interface, whose Run returns nil or an error.       *)

Strs == {"", "x"}
Lists == {<<>>, <<"a">>, <<"a", "b">>}

\* an error the executor's Run may return
ExecErr == [kind |-> "exec", msg |-> <<"command failed">>, wraps |-> "nil"]
\* another one: the executor's error for a cancelled command
CancelErr == [kind |-> "exec_canceled", msg |-> <<"command canceled">>,
              wraps |-> "nil"]
\* what executor.Run may return to a builder
ExecResults == {Nil, ExecErr, CancelErr}
\* fmt.Errorf(msg) of a builder's validation
ValidationError(msg) == [kind |-> "validation", msg |-> <<msg>>, wraps |-> "nil"]
\* Wrap with %v in place of %w: the message only, the cause is not wrapped
WrapWithoutCause(msg, err) == [kind |-> "wrapped", msg |-> msg, wraps |-> "nil"]

\* fmt.Errorf("...: %w", err)
Wrap(msg, err) == [kind |-> "wrapped", msg |-> msg, wraps |-> err.kind]

\* args = append(args, flag...) under a condition
Flag(cond, sq) == IF cond THEN sq ELSE <<>>

\* for _, v := range list { args = append(args, flag, v) }
RECURSIVE Each(_, _)
Each(flag, list) ==
    IF list = <<>> THEN <<>> ELSE <<flag, Head(list)>> \o Each(flag, Tail(list))

\* one executor.Run(context.Background(), cmd, false, args...)
RunCall(cmd, args) == [streamToLog |-> FALSE, command |-> cmd, args |-> args]

\* a builder with one executor call: validation first, then the call, whose
\* error is what the builder returns
Invoke(fn, opts, verr, cmd, args) ==
    /\ call' = [fn |-> fn, opts |-> opts]
    /\ IF verr # "nil"
       THEN /\ ret' = ValidationError(verr)
            /\ runs' = <<>>
            /\ execErrs' = <<>>
       ELSE /\ runs' = <<RunCall(cmd, args)>>
            /\ \E err \in ExecResults :
                  /\ execErrs' = <<err>>
                  /\ ret' = err
    /\ UNCHANGED execVars

\* for ... { if err := g.executor.Run(...); err != nil { return ... } }: the
\* iteration, from i on, at which the loop returns when the executor answers
\* call k with outs[k]; 0 when the loop runs to its end
RECURSIVE FirstFailure(_, _)
FirstFailure(outs, i) ==
    IF i > Len(outs) THEN 0
    ELSE IF outs[i] # Nil THEN i
    ELSE FirstFailure(outs, i + 1)

\* InvokeAll with the return inside the loop lost: every call is made, and
\* the first error is reported after the loop
InvokeAllContinue(fn, opts, cs, wrapmsg) ==
    /\ call' = [fn |-> fn, opts |-> opts]
    /\ \E outs \in [1..Len(cs) -> ExecResults] :
          LET n == FirstFailure(outs, 1)
          IN  /\ runs' = cs
              /\ execErrs' = outs
              /\ ret' = IF n = 0 THEN Nil ELSE Wrap(wrapmsg[n], outs[n])
    /\ UNCHANGED execVars

\* a builder that runs the calls of cs in order and returns at the first that
\* fails, with wrapmsg[i]: %w of the error of the failing call i
InvokeAll(fn, opts, cs, wrapmsg) ==
    /\ call' = [fn |-> fn, opts |-> opts]
    /\ \E outs \in [1..Len(cs) -> ExecResults] :
          LET n == FirstFailure(outs, 1)
          IN  IF n = 0
              THEN /\ runs' = cs
                   /\ execErrs' = outs
                   /\ ret' = Nil
              ELSE /\ runs' = SubSeq(cs, 1, n)
                   /\ execErrs' = SubSeq(outs, 1, n)
                   /\ ret' = Wrap(wrapmsg[n], outs[n])
    /\ UNCHANGED execVars

(* package golang *)

GoRunTests ==
    \E args \in Lists :
        Invoke("golang.RunTests", [args |-> args], "nil",
               "go", <<"test", "./...">> \o args)

GoRunLint ==
    \E args \in Lists :
        Invoke("golang.RunLint", [args |-> args], "nil",
               "golangci-lint", <<"run", "--timeout=5m">> \o args)

RunInstallValidate(pkgs) ==
    IF Len(pkgs) = 0 THEN "no package specified for installation" ELSE "nil"

GoRunInstall ==
    \E pkgs \in Lists, args \in Lists :
        IF RunInstallValidate(pkgs) # "nil"
        THEN Invoke("golang.RunInstall", [args |-> args, pkgs |-> pkgs],
                    RunInstallValidate(pkgs), "go", <<>>)
        ELSE InvokeAll("golang.RunInstall", [args |-> args, pkgs |-> pkgs],
                       [i \in 1..Len(pkgs) |->
                           RunCall("go", <<"install", pkgs[i]>> \o args)],
                       [i \in 1..Len(pkgs) |-> <<"failed to install", pkgs[i]>>])

GoRunModTasks ==
    InvokeAll("golang.RunModTasks", <<>>,
              <<RunCall("go", <<"mod", "tidy">>), RunCall("go", <<"mod", "verify">>)>>,
              <<<<"failed to run", "go mod tidy">>, <<"failed to run", "go mod verify">>>>)

GoRun ==
    Invoke("golang.Run", <<>>, "nil", "go", <<"mod", "tidy">>)

BuildValidate(opts) ==
    IF opts.Binary = "" THEN "binary name is required" ELSE "nil"

BuildArgs(opts) ==
    LET pkgs == IF Len(opts.Packages) = 0 THEN <<".">> ELSE opts.Packages
        destDir == IF opts.DestinationDir = "" THEN "dist/binaries"
                   ELSE opts.DestinationDir
        ldflags == <<"-X main.version=", opts.Version>>
                   \o Flag(~opts.Debug, <<" -s -w">>)
        outDir == <<destDir, <<opts.OS, "_", opts.Arch>>>>
        outPath == <<outDir, opts.Binary>>
    IN  <<<<"GOOS=", opts.OS>>, <<"GOARCH=", opts.Arch>>, "CGO_ENABLED=0",
          "go", "build", "-ldflags", ldflags, "-o", outPath>> \o pkgs

GoRunBuild ==
    \E bin \in Strs, os \in Strs, dbg \in BOOLEAN, pkgs \in Lists, dst \in Strs :
        LET opts == [Binary |-> bin, Packages |-> pkgs,
                     DestinationDir |-> dst,
                     Version |-> "v1", Debug |-> dbg,
                     OS |-> os, Arch |-> "amd64"]
        IN  \/ Invoke("golang.RunBuild", opts, BuildValidate(opts),
                      "env", BuildArgs(opts))
            \/ \* os.MkdirAll(outDir, 0o755) fails
               /\ BuildValidate(opts) = "nil"
               /\ call' = [fn |-> "golang.RunBuild", opts |-> opts]
               /\ ret' = [kind |-> "mkdir", msg |-> <<"mkdir failed">>, wraps |-> "nil"]
               /\ runs' = <<>>
               /\ execErrs' = <<>>
               /\ UNCHANGED execVars

GoRunTestsWithCoverage ==
    \E args \in Lists :
        Invoke("golang.RunTestsWithCoverage", [args |-> args], "nil", "go",
               <<"test", "-cover", "-coverprofile=coverage.out", "./...">> \o args)

GoRunVet ==
    \E args \in Lists :
        Invoke("golang.RunVet", [args |-> args], "nil",
               "go", <<"vet", "./...">> \o args)

GoRunFormat ==
    \E args \in Lists :
        Invoke("golang.RunFormat", [args |-> args], "nil",
               "gofmt", <<"-w", ".">> \o args)

GoRunFormatImports ==
    \E args \in Lists :
        Invoke("golang.RunFormatImports", [args |-> args], "nil",
               "goimports", <<"-w", ".">> \o args)

(* package helmx *)

\* ReleaseChartValidate without the chart check
ReleaseOnlyValidate(release, chart) ==
    IF release = "" THEN "release name is required" ELSE "nil"

\* Install and Upgrade: release name, then chart
ReleaseChartValidate(release, chart) ==
    IF release = "" THEN "release name is required"
    ELSE IF chart = "" THEN "chart is required"
    ELSE "nil"

\* Uninstall and Status
ReleaseValidate(release) ==
    IF release = "" THEN "release name is required" ELSE "nil"

\* Lint and Package
ChartValidate(chart) ==
    IF chart = "" THEN "chart path is required" ELSE "nil"

RepoAddValidate(name, url) ==
    IF name = "" THEN "repository name is required"
    ELSE IF url = "" THEN "repository URL is required"
    ELSE "nil"

InstallArgs(opts) ==
    <<"install", opts.ReleaseName, opts.Chart>>
    \o Flag(opts.Namespace # "", <<"--namespace", opts.Namespace>>)
    \o Flag(opts.CreateNamespace, <<"--create-namespace">>)
    \o Each("--values", opts.Values)
    \o Each("--set", opts.Set)
    \o Flag(opts.Wait, <<"--wait">>)
    \o Flag(opts.Timeout # "", <<"--timeout", opts.Timeout>>)

HelmInstall ==
    \E rel \in Strs, chart \in Strs, ns \in Strs, vals \in Lists,
       cns \in BOOLEAN, wait \in BOOLEAN, tmo \in Strs :
        LET opts == [Wait |-> wait, ReleaseName |-> rel, Chart |-> chart,
                     Namespace |-> ns,
                     CreateNamespace |-> cns,
                     Values |-> vals, Set |-> <<"k=v">>,
                     Timeout |-> tmo]
        IN  Invoke("helmx.Install", opts,
                   ReleaseChartValidate(opts.ReleaseName, opts.Chart),
                   "helm", InstallArgs(opts))

UpgradeArgs(opts) ==
    <<"upgrade", opts.ReleaseName, opts.Chart>>
    \o Flag(opts.Namespace # "", <<"--namespace", opts.Namespace>>)
    \o Flag(opts.Install, <<"--install">>)
    \o Each("--values", opts.Values)
    \o Each("--set", opts.Set)
    \o Flag(opts.Wait, <<"--wait">>)
    \o Flag(opts.Timeout # "", <<"--timeout", opts.Timeout>>)

HelmUpgrade ==
    \E rel \in Strs, chart \in Strs, ns \in Strs, vals \in Lists,
       inst \in BOOLEAN, wait \in BOOLEAN, tmo \in Strs :
        LET opts == [Wait |-> wait, ReleaseName |-> rel, Chart |-> chart,
                     Namespace |-> ns, Values |-> vals,
                     Set |-> <<"k=v">>, Timeout |-> tmo,
                     Install |-> inst]
        IN  Invoke("helmx.Upgrade", opts,
                   ReleaseChartValidate(opts.ReleaseName, opts.Chart),
                   "helm", UpgradeArgs(opts))

HelmUninstall ==
    \E rel \in Strs, ns \in Strs, args \in Lists :
        Invoke("helmx.Uninstall",
               [args |-> args, releaseName |-> rel, namespace |-> ns],
               ReleaseValidate(rel), "helm",
               <<"uninstall", rel>> \o Flag(ns # "", <<"--namespace", ns>>) \o args)

HelmList ==
    \E ns \in Strs, args \in Lists :
        Invoke("helmx.List", [args |-> args, namespace |-> ns], "nil", "helm",
               <<"list">>
               \o (IF ns # "" THEN <<"--namespace", ns>> ELSE <<"--all-namespaces">>)
               \o args)

HelmStatus ==
    \E rel \in Strs, ns \in Strs, args \in Lists :
        Invoke("helmx.Status",
               [args |-> args, releaseName |-> rel, namespace |-> ns],
               ReleaseValidate(rel), "helm",
               <<"status", rel>> \o Flag(ns # "", <<"--namespace", ns>>) \o args)

HelmTemplate ==
    \E rel \in Strs, chart \in Strs, args \in Lists :
        Invoke("helmx.Template",
               [args |-> args, chart |-> chart, releaseName |-> rel],
               ReleaseChartValidate(rel, chart), "helm",
               <<"template", rel, chart>> \o args)

HelmLint ==
    \E chart \in Strs, args \in Lists :
        Invoke("helmx.Lint", [args |-> args, chart |-> chart],
               ChartValidate(chart), "helm", <<"lint", chart>> \o args)

HelmPackage ==
    \E chart \in Strs, args \in Lists :
        Invoke("helmx.Package", [args |-> args, chart |-> chart],
               ChartValidate(chart), "helm", <<"package", chart>> \o args)

HelmRepoAdd ==
    \E name \in Strs, url \in Strs, args \in Lists :
        Invoke("helmx.RepoAdd", [args |-> args, name |-> name, url |-> url],
               RepoAddValidate(name, url), "helm",
               <<"repo", "add", name, url>> \o args)

HelmRepoUpdate ==
    \E args \in Lists :
        Invoke("helmx.RepoUpdate", [args |-> args], "nil", "helm",
               <<"repo", "update">> \o args)

(* package kox *)

\* Build and Publish
ImportPathValidate(importPath) ==
    IF importPath = "" THEN "import path is required" ELSE "nil"

\* Apply and Delete
FilenamesValidate(filenames) ==
    IF Len(filenames) = 0 THEN "at least one filename is required" ELSE "nil"

ResolveValidate(importPaths) ==
    IF Len(importPaths) = 0 THEN "at least one import path is required" ELSE "nil"

KoBuildArgs(opts) ==
    <<"build", opts.ImportPath>>
    \o Each("--tags", opts.Tags)
    \o Each("--platform", opts.Platform)
    \o Flag(opts.BaseImage # "", <<"--base-import-paths", opts.BaseImage>>)
    \o Flag(opts.Bare, <<"--bare">>)
    \o Flag(opts.Local, <<"--local">>)
    \o Flag(opts.Push, <<"--push">>)
    \o Flag(opts.PreserveImportPaths, <<"--preserve-import-paths">>)

KoBuild ==
    \E ip \in Strs, tags \in Lists, base \in Strs, bare \in BOOLEAN,
       local \in BOOLEAN, pip \in BOOLEAN :
        LET opts == [ImportPath |-> ip, Tags |-> tags, Platform |-> <<"linux/amd64">>,
                     BaseImage |-> base, Bare |-> bare, Local |-> local,
                     Push |-> ~local, PreserveImportPaths |-> pip]
        IN  Invoke("kox.Build", opts, ImportPathValidate(opts.ImportPath),
                   "ko", KoBuildArgs(opts))

\* KoApplyArgs with the name of the BaseImage argument pasted onto the
\* PreserveImportPaths flag
KoApplyArgsPasted(opts) ==
    <<"apply">>
    \o Each("-f", opts.Filenames)
    \o Flag(opts.Recursive, <<"--recursive">>)
    \o Flag(opts.Selector # "", <<"--selector", opts.Selector>>)
    \o Flag(opts.BaseImage # "", <<"--base-import-paths", opts.BaseImage>>)
    \o Each("--platform", opts.Platform)
    \o Flag(opts.Local, <<"--local">>)
    \o Flag(opts.Bare, <<"--bare">>)
    \o Flag(opts.PreserveImportPaths, <<"--base-import-paths">>)

KoApplyArgs(opts) ==
    <<"apply">>
    \o Each("-f", opts.Filenames)
    \o Flag(opts.Recursive, <<"--recursive">>)
    \o Flag(opts.Selector # "", <<"--selector", opts.Selector>>)
    \o Flag(opts.BaseImage # "", <<"--base-import-paths", opts.BaseImage>>)
    \o Each("--platform", opts.Platform)
    \o Flag(opts.Local, <<"--local">>)
    \o Flag(opts.Bare, <<"--bare">>)
    \o Flag(opts.PreserveImportPaths, <<"--preserve-import-paths">>)

KoApply ==
    \E files \in Lists, rec \in BOOLEAN, sel \in Strs, base \in Strs,
       local \in BOOLEAN, pip \in BOOLEAN :
        LET opts == [Platform |-> <<"linux/amd64">>, BaseImage |-> base,
                     Bare |-> ~local, Local |-> local,
                     PreserveImportPaths |-> pip,
                     Filenames |-> files,
                     Recursive |-> rec, Selector |-> sel]
        IN  Invoke("kox.Apply", opts, FilenamesValidate(opts.Filenames),
                   "ko", KoApplyArgs(opts))

KoDelete ==
    \E files \in Lists, rec \in BOOLEAN, sel \in Strs :
        LET opts == [Filenames |-> files, Recursive |-> rec, Selector |-> sel]
        IN  Invoke("kox.Delete", opts, FilenamesValidate(opts.Filenames), "ko",
                   <<"delete">> \o Each("-f", opts.Filenames)
                   \o Flag(opts.Recursive, <<"--recursive">>)
                   \o Flag(opts.Selector # "", <<"--selector", opts.Selector>>))

KoResolve ==
    \E paths \in Lists, args \in Lists :
        Invoke("kox.Resolve", [args |-> args, importPaths |-> paths],
               ResolveValidate(paths), "ko", <<"resolve">> \o args \o paths)

KoPublish ==
    \E ip \in Strs, args \in Lists :
        Invoke("kox.Publish", [args |-> args, importPath |-> ip],
               ImportPathValidate(ip), "ko", <<"publish", ip>> \o args)

\* the state before any builder is called; the executor model stays idle
InitBuilders ==
    /\ streamToLog = FALSE
    /\ script = [s \in Streams |-> <<>>]
    /\ exitCode = 0
    /\ ctxErr = "nil"
    /\ pc = "create"
    /\ result = NoResult
    /\ proc = "none"
    /\ waitErr = "nil"
    /\ wr = [s \in Streams |-> 0]
    /\ rd = [s \in Streams |-> 0]
    /\ closed = [s \in Streams |-> FALSE]
    /\ cons = [s \in Streams |-> "unlaunched"]
    /\ start = [s \in Streams |-> 0]
    /\ scanErr = [s \in Streams |-> "nil"]
    /\ token = [s \in Streams |-> <<0, 0>>]
    /\ logs = <<>>
    /\ term = [s \in Streams |-> <<>>]
    /\ scanned = [s \in Streams |-> <<>>]
    /\ cancelAt = "never"
    /\ call = NoCall
    /\ ret = Nil
    /\ runs = <<>>
    /\ execErrs = <<>>

NextBuilders ==
    \/ GoRunTests
    \/ GoRunLint
    \/ GoRunInstall
    \/ GoRunModTasks
    \/ GoRun
    \/ GoRunBuild
    \/ GoRunTestsWithCoverage
    \/ GoRunVet
    \/ GoRunFormat
    \/ GoRunFormatImports
    \/ HelmInstall
    \/ HelmUpgrade
    \/ HelmUninstall
    \/ HelmList
    \/ HelmStatus
    \/ HelmTemplate
    \/ HelmLint
    \/ HelmPackage
    \/ HelmRepoAdd
    \/ HelmRepoUpdate
    \/ KoBuild
    \/ KoApply
    \/ KoDelete
    \/ KoResolve
    \/ KoPublish

SpecBuilders == InitBuilders /\ [][NextBuilders]_vars

\* The scheduler runs every goroutine and the subprocess that can take a
\* step; the operating system delivers the kill.  Nothing obliges the caller
\* to cancel the context.
Fairness ==
    /\ WF_vars(CommandContext)
    /\ WF_vars(StdoutPipe)
    /\ WF_vars(StderrPipe)
    /\ WF_vars(Start)
    /\ WF_vars(GoStdout)
    /\ WF_vars(GoStderr)
    /\ WF_vars(Wait)
    /\ WF_vars(Classify)
    /\ WF_vars(Kill)
    /\ WF_vars(ProcExit)
    /\ \A s \in Streams : WF_vars(ProcWrite(s))
    /\ \A s \in Streams : WF_vars(Scan(s))
    /\ \A s \in Streams : WF_vars(Select(s))
    /\ \A s \in Streams : WF_vars(Copy(s))

FairSpec == Spec /\ Fairness

-----------------------------------------------------------------------------
(* Properties of Exec.Run *)

\* cmd.Wait() has been entered
WaitEntered ==
    \/ pc \in {"wait", "classify"}
    \/ pc = "done" /\ result.kind \in {"success", "run_failure", "canceled"}

Launched(s) == cons[s] # "unlaunched"

\* C1: in both streaming modes, whenever the foreground task has entered the
\* blocking Wait, both stream consumers have already been launched.
C1_ConsumersBeforeWait ==
    WaitEntered => \A s \in Streams : Launched(s)

\* C1 witness: Run blocks in Wait in log-streaming mode with both consumers
\* launched and the subprocess still running.
C1_Witness ==
    /\ pc = "wait"
    /\ streamToLog
    /\ proc = "running"
    /\ \A s \in Streams : Launched(s)

\* C2: when the subprocess exits with status 0, Run returns success only
\* after both consumers have observed end-of-stream.
C2_SuccessAfterEndOfStream ==
    result.kind = "success" => \A s \in Streams : cons[s] = "eof"

\* the subprocess writes more than one pipe buffer to each stream
BothOverPipe == \A s \in Streams : Total(s) > PipeCap

\* C3: a subprocess that writes more than one pipe buffer to both streams and
\* then exits never deadlocks Run: under fair scheduling Run returns.
C3_NoPipeDeadlock ==
    BothOverPipe => <>(pc = "done")

\* C4 as stated: if the context is cancelled while the subprocess is still
\* running, Run returns a cancelled failure.
C4_CancelledWhileRunningIsCancelled ==
    (pc = "done" /\ cancelAt = "running") => result.kind = "canceled"

\* C4 amended: if the context is cancelled while the subprocess is still
\* running, Run never returns a run failure; it returns a cancelled failure
\* naming the program and wrapping ctx.Err() whenever Wait reports an error
\* (the subprocess was killed or exited non-zero), and success only when the
\* subprocess exited with status 0 before the kill reached it.
C4_CancelledWhileRunning ==
    (pc = "done" /\ cancelAt = "running") =>
        /\ result.kind \in {"canceled", "success"}
        /\ result.kind = "canceled" =>
              /\ result = Failure("canceled", TRUE, ctxErr)
              /\ proc = "killed" \/ exitCode # 0
        /\ result.kind = "success" => proc = "exited" /\ exitCode = 0

\* C4 witness: cancelled while running, the subprocess then exits non-zero on
\* its own, and Run returns the cancelled failure.
C4_Witness ==
    /\ pc = "done"
    /\ cancelAt = "running"
    /\ proc = "exited"
    /\ exitCode # 0
    /\ result.kind = "canceled"

\* C5: when Start fails, Run returns at once a start failure that names the
\* program and wraps Start's error; no consumer is launched, Wait is never
\* called, and no run failure or cancelled failure is produced.
C5_StartFailure ==
    /\ [][(pc = "start" /\ pc' # "start" /\ proc' # "running") =>
              /\ pc' = "done"
              /\ result'.kind = "start_failure"
              /\ result'.command
              /\ result'.wraps = (IF ctxErr # "nil" THEN ctxErr ELSE "exec error")]_vars
    /\ [](proc = "none" /\ pc \notin {"create", "stdoutPipe", "stderrPipe", "start"} =>
              /\ pc = "done"
              /\ result.kind \notin {"run_failure", "canceled", "success"}
              /\ waitErr = "nil"
              /\ \A s \in Streams : ~Launched(s))

\* C5 witness: Start failed and Run has returned the start failure.
C5_Witness ==
    /\ pc = "done"
    /\ result = Failure("start_failure", TRUE, "exec error")
    /\ proc = "none"
    /\ \A s \in Streams : ~Launched(s)

\* C6: when Wait reports an error, Run classifies it by the context state at
\* that moment: a cancelled failure naming the program and wrapping ctx.Err()
\* if and only if the context is cancelled, otherwise a run failure naming
\* the program and wrapping Wait's error.
C6_ClassifiedByContext ==
    /\ [][(pc = "wait" /\ pc' # "wait") =>
              IF proc = "killed" \/ exitCode # 0
              THEN pc' = "classify" /\ waitErr' # "nil"
              ELSE pc' = "done" /\ result' = Success]_vars
    /\ [][(pc = "classify" /\ pc' # "classify") =>
              /\ pc' = "done"
              /\ (ctxErr # "nil") <=> (result'.kind = "canceled")
              /\ (ctxErr = "nil") <=> (result'.kind = "run_failure")
              /\ result'.command
              /\ result'.wraps = (IF ctxErr # "nil" THEN ctxErr ELSE waitErr)]_vars

\* C6 witness: the subprocess exited non-zero with the context live, and Run
\* returned a run failure wrapping the exit error.
C6_Witness ==
    /\ pc = "done"
    /\ ctxErr = "nil"
    /\ result = Failure("run_failure", TRUE, "exit status 1")

\* the positions of record r in the log
Positions(r) == {i \in 1..Len(logs) : logs[i] = r}

\* the line records of stream s, in the order they were logged
LineRecs(s) == SelectSeq(logs, LAMBDA r : r.msg = "line" /\ r.stream = s)

\* C7: in log-streaming mode a line longer than maxCapacity makes its
\* stream's consumer log one stream-read error and stop consuming for good;
\* the step leaves the other stream's consumer as it was, the over-long line
\* is never logged as a line, and Run's result still depends on the
\* subprocess's exit alone: success exactly when it exited with status 0.
C7_ReadErrorIsLocal ==
    /\ [](streamToLog => \A s \in Streams :
            /\ Buffered(s) <= maxCapacity
            /\ \A i \in 1..Len(logs) :
                  logs[i].msg = "line" => logs[i].to - logs[i].from < maxCapacity
            /\ scanErr[s] = "token too long" =>
                  /\ cons[s] = "readerr"
                  /\ Cardinality(Positions(ReadErrRecord(s))) = 1)
    /\ [](pc = "done" /\ WaitEntered =>
             (result = Success <=> (proc = "exited" /\ exitCode = 0)))
    /\ [][\A s \in Streams :
            /\ cons[s] = "readerr" =>
                  /\ cons'[s] = "readerr"
                  /\ rd'[s] = rd[s]
                  /\ LineRecs(s)' = LineRecs(s)
            /\ (cons[s] # "readerr" /\ cons'[s] = "readerr") =>
                  /\ cons'[Other(s)] = cons[Other(s)]
                  /\ rd'[Other(s)] = rd[Other(s)]
                  /\ start'[Other(s)] = start[Other(s)]
                  /\ scanErr'[Other(s)] = scanErr[Other(s)]
                  /\ scanned'[Other(s)] = scanned[Other(s)]]_vars

\* C7 witness: stdout carried an over-long line and its consumer logged the
\* read error; after that the stderr consumer still logged a line, and Run
\* returned success.
C7_Witness ==
    /\ streamToLog
    /\ scanErr["stdout"] = "token too long"
    /\ cons["stdout"] = "readerr"
    /\ result = Success
    /\ \E i, j \in 1..Len(logs) :
          /\ i < j
          /\ logs[i] = ReadErrRecord("stdout")
          /\ logs[j].msg = "line" /\ logs[j].stream = "stderr"

\* the token of a line record
Tok(r) == <<r.from, r.to>>

\* the severity the specification gives the lines of stream s
Severity(s) == IF s = "stdout" THEN "INFO" ELSE "ERROR"

\* C8 as stated: with streamToLog true each consumer has emitted exactly one
\* record, at its stream's severity, for every line scanner.Scan has returned
\* to it (a line just returned, not yet through the loop body, aside).
C8_OneRecordPerLineRead ==
    streamToLog =>
        \A s \in Streams :
            cons[s] # "select" =>
                /\ Len(LineRecs(s)) = Len(scanned[s])
                /\ \A i \in 1..Len(scanned[s]) :
                      /\ Tok(LineRecs(s)[i]) = scanned[s][i]
                      /\ LineRecs(s)[i].level = Severity(s)

\* C8 amended: with streamToLog true each consumer emits exactly one record
\* per line read while the context is not cancelled, in the order the lines
\* were written, stdout lines at info and stderr lines at error severity and
\* none at the other stream's severity; the one line read when the consumer
\* finds the context cancelled is not logged: a warn-severity "stream
\* canceled" record is emitted in its place and the consumer stops.
C8_OneRecordPerLineUntilCancelled ==
    streamToLog =>
        \A s \in Streams :
            /\ Len(scanned[s]) - Len(LineRecs(s)) =
                  (IF cons[s] \in {"select", "canceled"} THEN 1 ELSE 0)
            /\ \A i \in 1..Len(LineRecs(s)) :
                  /\ Tok(LineRecs(s)[i]) = scanned[s][i]
                  /\ LineRecs(s)[i].level = Severity(s)
                  /\ LineRecs(s)[i].level # Severity(Other(s))
            /\ \A i \in 1..(Len(scanned[s]) - 1) :
                  scanned[s][i][2] < scanned[s][i + 1][1]
            /\ cons[s] = "canceled" <=> Positions(CancelRecord(s)) # {}
            /\ Cardinality(Positions(CancelRecord(s))) <= 1
            /\ cons[s] = "canceled" => ctxErr # "nil"

\* C8 witness: both lines of stdout were logged, stdout reached end-of-stream
\* and a stderr line was logged too.
C8_Witness ==
    /\ streamToLog
    /\ cons["stdout"] = "eof"
    /\ Len(LineRecs("stdout")) = 2
    /\ Len(LineRecs("stderr")) >= 1

\* C9: with streamToLog false the stdout bytes go to the caller's standard
\* output only and the stderr bytes to its standard error only, each in
\* stream order with no gap, and no log record is emitted.
C9_PassthroughCopy ==
    ~streamToLog =>
        /\ logs = <<>>
        /\ \A d \in Streams :
              term[d] = IF rd[d] = 0 THEN <<>> ELSE <<<<d, 0, rd[d]>>>>

\* C9 witness: both streams carried more than one pipe buffer and both were
\* copied in full.
C9_Witness ==
    /\ ~streamToLog
    /\ \A d \in Streams :
          /\ Total(d) > PipeCap
          /\ term[d] = <<<<d, 0, Total(d)>>>>

-----------------------------------------------------------------------------
(* Properties of the option builders *)

\* a field the builder's documentation and error messages call required is
\* empty in the last call
RequiredMissing ==
    \/ call.fn = "golang.RunInstall" /\ call.opts.pkgs = <<>>
    \/ call.fn = "golang.RunBuild" /\ call.opts.Binary = ""
    \/ /\ call.fn \in {"helmx.Install", "helmx.Upgrade"}
       /\ (call.opts.ReleaseName = "" \/ call.opts.Chart = "")
    \/ call.fn \in {"helmx.Uninstall", "helmx.Status"} /\ call.opts.releaseName = ""
    \/ /\ call.fn = "helmx.Template"
       /\ (call.opts.releaseName = "" \/ call.opts.chart = "")
    \/ call.fn \in {"helmx.Lint", "helmx.Package"} /\ call.opts.chart = ""
    \/ call.fn = "helmx.RepoAdd" /\ (call.opts.name = "" \/ call.opts.url = "")
    \/ call.fn = "kox.Build" /\ call.opts.ImportPath = ""
    \/ call.fn \in {"kox.Apply", "kox.Delete"} /\ call.opts.Filenames = <<>>
    \/ call.fn = "kox.Resolve" /\ call.opts.importPaths = <<>>
    \/ call.fn = "kox.Publish" /\ call.opts.importPath = ""

\* C10: a builder called with a required field empty returns a validation
\* error and makes no executor.Run call.
C10_ValidationBeforeRun ==
    RequiredMissing => ret.kind = "validation" /\ runs = <<>>

\* C10 witness: helm Install was called with a release name but no chart and
\* returned the validation error without calling the executor.
C10_Witness ==
    /\ call.fn = "helmx.Install"
    /\ call.opts.ReleaseName # ""
    /\ call.opts.Chart = ""
    /\ ret = ValidationError("chart is required")
    /\ runs = <<>>

\* the builder called last is one of the multi-step routines
MultiStep == call.fn \in {"golang.RunModTasks", "golang.RunInstall"}

\* the executor calls the routine called last is to make, in list order
Planned ==
    IF call.fn = "golang.RunModTasks"
    THEN <<[streamToLog |-> FALSE, command |-> "go", args |-> <<"mod", "tidy">>],
           [streamToLog |-> FALSE, command |-> "go", args |-> <<"mod", "verify">>]>>
    ELSE IF call.fn = "golang.RunInstall"
    THEN [i \in 1..Len(call.opts.pkgs) |->
             [streamToLog |-> FALSE, command |-> "go",
              args |-> <<"install", call.opts.pkgs[i]>> \o call.opts.args]]
    ELSE <<>>

\* C11: RunModTasks and RunInstall stop at their first failing step: when
\* step i fails, the steps 1..i have run in list order, no step after i is
\* executed (a failing go mod tidy leaves go mod verify unexecuted) and the
\* routine returns an error; when no step fails, all of them have run.
C11_StopsAtFirstFailure ==
    MultiStep =>
        /\ Len(runs) = Len(execErrs)
        /\ \A i \in 1..Len(execErrs) :
              execErrs[i] # Nil =>
                  /\ runs = SubSeq(Planned, 1, i)
                  /\ \A j \in 1..(i - 1) : execErrs[j] = Nil
                  /\ ret.kind # "nil"
        /\ (Len(Planned) > 0 /\ \A i \in 1..Len(execErrs) : execErrs[i] = Nil) =>
              /\ runs = Planned
              /\ ret = Nil

\* C11 witness: go mod tidy failed in RunModTasks; it is the only call made
\* and the routine returned an error.
C11_Witness ==
    /\ call.fn = "golang.RunModTasks"
    /\ execErrs = <<ExecErr>>
    /\ Len(runs) = 1
    /\ runs[1].args = <<"mod", "tidy">>
    /\ ret.kind # "nil"

\* the message RunModTasks and RunInstall put before the error of step i
StepMessage(i) ==
    IF call.fn = "golang.RunModTasks"
    THEN <<"failed to run", IF i = 1 THEN "go mod tidy" ELSE "go mod verify">>
    ELSE <<"failed to install", call.opts.pkgs[i]>>

\* C12 as stated: every error the executor returned to a builder is the
\* error the builder returns, the same value, for every builder.
C12_ErrorsReturnedUnchanged ==
    \A i \in 1..Len(execErrs) : execErrs[i] # Nil => ret = execErrs[i]

\* C12 amended: every error the executor returned to a builder reaches the
\* builder's caller: the builders that make one executor call return it
\* unchanged, and RunInstall and RunModTasks return an error that names the
\* failing step and wraps it (%w); no builder drops it or replaces it.
C12_ErrorsUnchangedOrWrapped ==
    \A i \in 1..Len(execErrs) :
        execErrs[i] # Nil =>
            IF MultiStep
            THEN /\ ret.kind = "wrapped"
                 /\ ret.wraps = execErrs[i].kind
                 /\ ret.msg = StepMessage(i)
            ELSE ret = execErrs[i]

\* C12 witness: RunInstall's second package failed with the executor's
\* cancelled error, and RunInstall returned it wrapped, naming the package.
C12_Witness ==
    /\ call.fn = "golang.RunInstall"
    /\ call.opts.pkgs = <<"a", "b">>
    /\ execErrs = <<Nil, CancelErr>>
    /\ ret.kind = "wrapped"
    /\ ret.wraps = "exec_canceled"
    /\ ret.msg = <<"failed to install", "b">>

-----------------------------------------------------------------------------
(* Properties of Exec.Run's result *)

\* the failures of opening a pipe, before the subprocess is started
PipeFailures == {"stdout_pipe_failure", "stderr_pipe_failure"}

\* C13 as stated: every result of Run is success, implying the subprocess
\* exited with status 0, or a failure whose phase is start-failure,
\* run-failure or cancelled; no other failure is returned.
C13_ThreeFailurePhases ==
    pc = "done" =>
        /\ result.kind \in {"success", "start_failure", "run_failure", "canceled"}
        /\ result.kind = "success" => proc = "exited" /\ exitCode = 0

\* C13 amended: every result of Run is success, implying the subprocess
\* exited with status 0, or a failure whose phase is exactly one of
\* pipe-failure (the stdout or the stderr pipe could not be opened; nothing
\* was started), start-failure (nothing was started), run-failure or
\* cancelled (the subprocess is gone and Wait reported an error); no other
\* kind of failure is returned on any path of Run.
C13_FourFailurePhases ==
    IF pc = "done"
    THEN /\ result.kind \in {"success", "start_failure", "run_failure", "canceled"}
                            \cup PipeFailures
         /\ result.kind = "success" =>
               proc = "exited" /\ exitCode = 0 /\ waitErr = "nil"
         /\ result.kind \in PipeFailures =>
               /\ proc = "none"
               /\ result.wraps = "pipe error"
               /\ ~result.command
               /\ \A s \in Streams : ~Launched(s)
         /\ result.kind = "start_failure" => proc = "none"
         /\ result.kind \in {"run_failure", "canceled"} =>
               proc \in {"exited", "killed"} /\ waitErr # "nil"
    ELSE result = NoResult

\* C13 witness: the stderr pipe could not be opened and Run returned that
\* failure without starting the subprocess.
C13_Witness ==
    /\ pc = "done"
    /\ result = Failure("stderr_pipe_failure", FALSE, "pipe error")
    /\ proc = "none"

-----------------------------------------------------------------------------
(* Properties of cancellation *)

\* consumer s is running: launched and not returned
Active(s) == cons[s] \in {"scan", "select", "copy"}

\* C14 as stated: in both streaming modes, once the context is cancelled a
\* consumer consumes nothing more, and a consumer that returns after the
\* cancellation returns with the cancellation notice logged.
C14_ConsumersStopOnCancel ==
    [][\A s \in Streams :
           ctxErr # "nil" =>
               /\ rd'[s] = rd[s]
               /\ (Active(s) /\ ~Active(s)') =>
                     /\ cons'[s] = "canceled"
                     /\ logs' = Append(logs, CancelRecord(s))]_vars

\* C14 amended: in log-streaming mode each consumer looks at the context
\* once per line scanner.Scan returns, not between the reads Scan makes, so it
\* may still read after the cancellation; when it finds the context
\* cancelled it logs the "stream canceled" notice in place of the line and
\* stops for good, otherwise it logs the line and goes on scanning.  In
\* passthrough mode the consumers never look at the context: they log
\* nothing and never stop for a cancellation.  In neither mode does a step of
\* a consumer change the state of the subprocess.
C14_LogConsumerChecksPerLine ==
    /\ [][\A s \in Streams :
            /\ (cons[s] = "select" /\ cons'[s] # "select") =>
                  IF ctxErr # "nil"
                  THEN /\ cons'[s] = "canceled"
                       /\ logs' = Append(logs, CancelRecord(s))
                  ELSE /\ cons'[s] = "scan"
                       /\ logs' = Append(logs, [msg |-> "line",
                                                level |-> Severity(s),
                                                stream |-> s,
                                                from |-> token[s][1],
                                                to |-> token[s][2]])
            /\ (cons'[s] = "canceled" /\ cons[s] # "canceled") =>
                  cons[s] = "select" /\ streamToLog
            /\ cons[s] = "canceled" =>
                  /\ cons'[s] = "canceled"
                  /\ rd'[s] = rd[s]
                  /\ LineRecs(s)' = LineRecs(s)
            /\ (cons'[s] # cons[s] \/ rd'[s] # rd[s]) => proc' = proc]_vars
    /\ [](~streamToLog =>
             /\ logs = <<>>
             /\ \A s \in Streams : cons[s] \notin {"scan", "select", "canceled"})

\* C14 witness: in log-streaming mode the stderr consumer read a line, found
\* the context cancelled, logged the notice and stopped, leaving the line
\* unlogged.
C14_Witness ==
    /\ streamToLog
    /\ cons["stderr"] = "canceled"
    /\ Len(scanned["stderr"]) = 1
    /\ LineRecs("stderr") = <<>>
    /\ Positions(CancelRecord("stderr")) # {}

\* C15 as stated: cancelling the context never terminates the subprocess; a
\* subprocess that is running when the context is cancelled is not killed.
C15_CancelNeverKills ==
    cancelAt = "running" => proc # "killed"

\* C15 amended: cancelling the context terminates a subprocess that is still
\* running: the watcher of exec.CommandContext kills it, so a subprocess
\* that is running when the context is cancelled is soon gone, killed or
\* exited on its own.  Nothing else kills: a subprocess is killed only while
\* running and only under a cancelled context, and Run then returns a
\* cancelled failure.
C15_CancelKillsRunning ==
    /\ [][(proc' = "killed" /\ proc # "killed") =>
              proc = "running" /\ ctxErr # "nil"]_vars
    /\ [](proc = "killed" => ctxErr # "nil" /\ cancelAt = "running")
    /\ [](proc = "killed" /\ pc = "done" =>
              result = Failure("canceled", TRUE, ctxErr))
    /\ (ctxErr # "nil" /\ proc = "running") ~> (proc \in {"killed", "exited"})

\* C15 witness: the context was cancelled while the subprocess was running,
\* the subprocess was killed with output still unwritten, and Run returned
\* the cancelled failure.
C15_Witness ==
    /\ cancelAt = "running"
    /\ proc = "killed"
    /\ \E s \in Streams : wr[s] < Total(s)
    /\ pc = "done"
    /\ result.kind = "canceled"

\* C16: when a Run that started its subprocess returns, the one subprocess
\* it spawned has terminated and both consumer tasks it launched have
\* returned.
C16_TornDownAtReturn ==
    (pc = "done" /\ proc # "none") =>
        /\ proc \in {"exited", "killed"}
        /\ \A s \in Streams : Launched(s) /\ ~Active(s)

-----------------------------------------------------------------------------
(* Properties of the ko argument builders *)

\* the last call was ko Build or ko Apply and reached the executor
KoBuildOrApplyRan ==
    call.fn \in {"kox.Build", "kox.Apply"} /\ Len(runs) = 1

\* the positions of argument a in the argument list of the executor call
ArgPositions(a) == {i \in 1..Len(runs[1].args) : runs[1].args[i] = a}

\* C17 as stated: in ko Build and ko Apply both the PreserveImportPaths flag
\* and the BaseImage option are emitted under --base-import-paths.
C17_BothUnderBaseImportPaths ==
    KoBuildOrApplyRan =>
        /\ Cardinality(ArgPositions("--base-import-paths")) =
              (IF call.opts.BaseImage # "" THEN 1 ELSE 0)
              + (IF call.opts.PreserveImportPaths THEN 1 ELSE 0)
        /\ ArgPositions("--preserve-import-paths") = {}

\* C17 amended: in ko Build and ko Apply only the BaseImage option is
\* emitted under --base-import-paths, followed by its value; the
\* PreserveImportPaths flag is emitted under its own name,
\* --preserve-import-paths.
C17_OnlyBaseImageUnderBaseImportPaths ==
    KoBuildOrApplyRan =>
        /\ Cardinality(ArgPositions("--base-import-paths")) =
              (IF call.opts.BaseImage # "" THEN 1 ELSE 0)
        /\ \A i \in ArgPositions("--base-import-paths") :
              /\ i < Len(runs[1].args)
              /\ runs[1].args[i + 1] = call.opts.BaseImage
        /\ Cardinality(ArgPositions("--preserve-import-paths")) =
              (IF call.opts.PreserveImportPaths THEN 1 ELSE 0)

\* C17 witness: ko Apply ran with a base image and PreserveImportPaths set;
\* both argument names are in the executor call.
C17_Witness ==
    /\ call.fn = "kox.Apply"
    /\ Len(runs) = 1
    /\ call.opts.BaseImage # ""
    /\ call.opts.PreserveImportPaths
    /\ ArgPositions("--base-import-paths") # {}
    /\ ArgPositions("--preserve-import-paths") # {}

-----------------------------------------------------------------------------
(* Properties of termination *)

\* consumer s has stopped before end-of-stream while the subprocess still
\* has output to write to stream s
StoppedEarly(s) ==
    /\ cons[s] \in {"readerr", "canceled"}
    /\ proc = "running"
    /\ wr[s] < Total(s)

\* C18: Run returns even when a consumer stopped consuming before
\* end-of-stream, after a stream-read error or after seeing the
\* cancellation, while the subprocess still has output for that stream.
C18_EarlyStopNeverBlocksRun ==
    (\E s \in Streams : StoppedEarly(s)) ~> (pc = "done")

\* C19: Run returns success if and only if both pipes were opened, Start
\* succeeded and Wait returned no error: no return before Wait is a success,
\* Wait's nil error (the subprocess exited with status 0) is returned as
\* success whatever the context says, and a Wait error never is; the context
\* is read only on the way from a Wait error to the result.
C19_SuccessIffWaitNil ==
    /\ [][(pc \in {"create", "stdoutPipe", "stderrPipe", "start"} /\ pc' = "done") =>
              result'.kind # "success" /\ proc' = "none"]_vars
    /\ [][(pc = "wait" /\ pc' # "wait") =>
              /\ waitErr' = "nil" <=> (proc = "exited" /\ exitCode = 0)
              /\ IF waitErr' = "nil"
                 THEN pc' = "done" /\ result' = Success
                 ELSE pc' = "classify" /\ result' = NoResult]_vars
    /\ [][(pc = "classify" /\ pc' # "classify") =>
              pc' = "done" /\ result'.kind \in {"canceled", "run_failure"}]_vars
    /\ [](result = Success =>
              /\ pc = "done"
              /\ waitErr = "nil"
              /\ proc = "exited"
              /\ exitCode = 0
              /\ \A s \in Streams : Launched(s))
    /\ [](pc = "done" /\ proc = "exited" /\ exitCode = 0 => result = Success)

\* C19 witness: the context was cancelled while the subprocess was running,
\* the subprocess exited with status 0 before the kill, and Run returned
\* success under the cancelled context.
C19_Witness ==
    /\ pc = "done"
    /\ result = Success
    /\ ctxErr # "nil"
    /\ cancelAt = "running"
    /\ waitErr = "nil"

====
